---- MODULE Spec2Model ----
(***************************************************************************)
(* A model of github.com/cacilhas/neuron: the neuron (gene vector, linear  *)
(* threshold, wire encoding) and the front/back neural network built from  *)
(* it (canonical names, validation, forward pass, framed persistence).     *)
(*                                                                         *)
(* Representation.  A Go int is kept in its machine form, a sequence of    *)
(* IntBytes bytes, most significant first, in two's complement: Marshal    *)
(* narrows a gene to 32 bits, so the width of a gene matters.  A uint32 is *)
(* a sequence of 4 bytes.  Lengths, counts and the results of Compute stay *)
(* small and are plain integers.  A float64 is counted in halves (the      *)
(* value 2.5 is 5): on the small values used here float64 arithmetic is    *)
(* exact, so the count of halves is the float.                             *)
(***************************************************************************)
EXTENDS Integers, Sequences, FiniteSets, TLC

VARIABLES neu, net, args, ret, heap, chans, calls

vars == <<neu, net, args, ret, heap, chans, calls>>

\* Bounds of the model.
MaxLen == 2
MaxLayer == 2
MaxNames == 2
MaxCalls == 2
MaxLog == 3

\* Width of the host int, in bytes (amd64: type neuron []int).
IntBytes == 8

----------------------------------------------------------------------------
\* Machine integers

RECURSIVE Concat(_)
Concat(ss) == IF ss = <<>> THEN <<>> ELSE Head(ss) \o Concat(Tail(ss))

Zeros(k) == [i \in 1..k |-> 0]

Complement(w) == [i \in 1..Len(w) |-> 255 - w[i]]

\* The 4 bytes of n, 0 <= n < 2^31, most significant first.
BE32(n) == <<n \div 16777216, (n \div 65536) % 256, (n \div 256) % 256, n % 256>>

\* The host int holding the small integer n.
IntWord(n) ==
    IF n >= 0 THEN Zeros(IntBytes - 4) \o BE32(n)
    ELSE Complement(Zeros(IntBytes - 4) \o BE32(-n - 1))

RECURSIVE AddCarry(_, _, _, _)
AddCarry(a, b, i, c) ==
    IF i = 0 THEN <<>>
    ELSE LET s == a[i] + b[i] + c
         IN  AddCarry(a, b, i - 1, s \div 256) \o <<s % 256>>

\* a + b on int64, wrapping.
Add64(a, b) == AddCarry(a, b, IntBytes, 0)

\* a - b on int64, wrapping.
Sub64(a, b) == Add64(Add64(a, Complement(b)), IntWord(1))

\* int64(0x100000000)
Two32 == <<0, 0, 0, 1, 0, 0, 0, 0>>

\* gene < 0
Negative(w) == w[1] >= 128

\* uint32(x) of an int64 x: the low 32 bits.
ToUint32(w) == SubSeq(w, IntBytes - 3, IntBytes)

\* int64(v) of a uint32 v.
FromUint32(v) == Zeros(IntBytes - 4) \o v

\* The value of a host int that fits 32 bits, as a plain integer.
Fits32(w) ==
    \/ SubSeq(w, 1, IntBytes - 4) = Zeros(IntBytes - 4) /\ w[IntBytes - 3] < 128
    \/ SubSeq(w, 1, IntBytes - 4) = Complement(Zeros(IntBytes - 4)) /\ w[IntBytes - 3] >= 128

Val32(b) == b[1] * 16777216 + b[2] * 65536 + b[3] * 256 + b[4]

ToInt(w) ==
    IF Negative(w) THEN -Val32(Complement(ToUint32(w))) - 1
    ELSE Val32(ToUint32(w))

\* int32(x) of a host int x, as a plain integer.
ToInt32(w) ==
    LET b == ToUint32(w)
    IN  IF b[1] >= 128 THEN -Val32(Complement(b)) - 1 ELSE Val32(b)

\* -a on int64, wrapping.
Neg64(a) == Sub64(IntWord(0), a)

\* a >> 1 of a host int that is not negative.
Shr1(w) ==
    [i \in 1..Len(w) |->
        w[i] \div 2 + (IF i > 1 /\ w[i - 1] % 2 = 1 THEN 128 ELSE 0)]

\* a / 2 on int, rounding toward zero.
Half64(w) == IF Negative(w) THEN Neg64(Shr1(Neg64(w))) ELSE Shr1(w)

----------------------------------------------------------------------------
\* Neuron

\* NewNeuron([]int): make and copy.
NewNeuronInts(value) == [i \in 1..Len(value) |-> value[i]]

GetSize(n) == Len(n)

GetGene(n, index) == n[index + 1]

Equals(n, other) ==
    /\ GetSize(n) = GetSize(other)
    /\ \A i \in 0..(GetSize(n) - 1) : GetGene(n, i) = GetGene(other, i)

\* binary.BigEndian.PutUint16(buf, uint16(size)): buf[0], buf[1].
PutUint16(size) == <<(size \div 256) % 256, size % 256>>

\* cur in Marshal: the gene as a uint32.
GeneCur(gene) ==
    IF Negative(gene) THEN ToUint32(Add64(Two32, gene))
    ELSE ToUint32(gene)

PutUint32LE(cur) == <<cur[4], cur[3], cur[2], cur[1]>>

\* binary.BigEndian.PutUint32(buf, cur): buf[0..3].
PutUint32(cur) == <<cur[1], cur[2], cur[3], cur[4]>>

\* The bytes the goroutine of Marshal sends on its channel, in order.
MarshalBytes(n) ==
    PutUint16(GetSize(n))
        \o Concat([i \in 1..Len(n) |-> PutUint32(GeneCur(n[i]))])

\* binary.BigEndian.Uint16(b)
Uint16(b) == b[1] * 256 + b[2]

\* What processBytes sends before it returns or panics: the values read, and
\* whether the read of body[i*4:] panicked (recovered and sent on ech).
ProcessBytes(body, size) ==
    LET n == IF Len(body) \div 4 < size THEN Len(body) \div 4 ELSE size
        value(i) == SubSeq(body, 4 * i - 3, 4 * i)
    IN  [vals |-> [i \in 1..n |->
                     IF value(i)[1] >= 128
                     THEN Sub64(FromUint32(value(i)), Two32)
                     ELSE FromUint32(value(i))],
         err  |-> n < size]

\* neuronFromBytes: "panic" when the input cannot hold the size header.
NeuronFromBytes(input) ==
    IF Len(input) < 2 THEN [kind |-> "panic", neu |-> <<>>]
    ELSE LET size == Uint16(input)
             p    == ProcessBytes(SubSeq(input, 3, Len(input)), size)
         IN  IF p.err THEN [kind |-> "err", neu |-> <<>>]
             ELSE [kind |-> "ok", neu |-> p.vals]

\* int(sum) for a float64 sum counted in halves: truncation toward zero.
TruncHalves(h) == IF h >= 0 THEN h \div 2 ELSE -((-h) \div 2)

RECURSIVE SumLoop(_, _, _)
SumLoop(n, data, index) ==
    IF index = Len(data) THEN 0
    ELSE data[index + 1] * ToInt(GetGene(n, index)) + SumLoop(n, data, index + 1)

NeuronComputeNoThreshold(n, data) ==
    IF Len(data) # GetSize(n) THEN [kind |-> "panic", val |-> 0]
    ELSE [kind |-> "ok", val |-> TruncHalves(SumLoop(n, data, 0))]

NeuronComputeNoArity(n, data) ==
    LET m    == IF Len(data) < GetSize(n) THEN Len(data) ELSE GetSize(n)
        sum  == SumLoop(n, SubSeq(data, 1, m), 0)
    IN  [kind |-> "ok", val |-> IF sum > 0 THEN TruncHalves(sum) ELSE 0]

NeuronComputeDrifting(n, data) ==
    IF Len(data) # GetSize(n) THEN [kind |-> "panic", val |-> 0]
    ELSE LET sum == SumLoop(n, data, 0) + 2 * Len(calls)
         IN  [kind |-> "ok", val |-> IF sum > 0 THEN TruncHalves(sum) ELSE 0]

\* Compute: data are float64 in halves; the result is an int.
NeuronCompute(n, data) ==
    IF Len(data) # GetSize(n) THEN [kind |-> "panic", val |-> 0]
    ELSE LET sum == SumLoop(n, data, 0)
         IN  [kind |-> "ok", val |-> IF sum > 0 THEN TruncHalves(sum) ELSE 0]

\* neuron.Child(dev), draws[i] being what rand.Int31n(int32(dev)) returns for
\* gene i; Int31n panics when its argument is not positive.
Child(n, dev, draws) ==
    IF GetSize(n) > 0 /\ ToInt32(dev) <= 0 THEN [kind |-> "panic", val |-> <<>>]
    ELSE [kind |-> "ok",
          val |-> [i \in 1..GetSize(n) |->
                     Sub64(Add64(n[i], IntWord(draws[i])), Half64(dev))]]

\* What rand.Int31n(int32(dev)) can return for each of size genes.
Draws(size, dev) ==
    IF ToInt32(dev) <= 0 THEN { [i \in 1..size |-> 0] }
    ELSE [1..size -> 0..(ToInt32(dev) - 1)]

----------------------------------------------------------------------------
\* Inputs

\* Gene values: small ones, the ends of the int32 range, and host ints
\* outside it.
GeneVals ==
    { IntWord(0), IntWord(1), IntWord(-1), IntWord(256),
      <<0, 0, 0, 0, 127, 255, 255, 255>>,
      <<255, 255, 255, 255, 128, 0, 0, 0>>,
      <<0, 0, 0, 0, 128, 0, 0, 0>>,
      <<0, 0, 0, 1, 0, 0, 0, 0>>,
      <<255, 255, 255, 255, 127, 255, 255, 255>> }

GeneVecs == UNION { [1..n -> GeneVals] : n \in 0..MaxLen }

\* Genes for the computations.
SmallGenes == { IntWord(-2), IntWord(-1), IntWord(0), IntWord(1), IntWord(3) }

SmallVecs == UNION { [1..n -> SmallGenes] : n \in 0..MaxLen }

\* float64 parameters, in halves: -1, 0.5, 2.5.
ParamVals == { -2, 1, 5 }

ParamVecs == UNION { [1..n -> ParamVals] : n \in 0..(MaxLen + 1) }

Prefixes(s) == { SubSeq(s, 1, k) : k \in 0..Len(s) }

\* Byte sequences handed to NewNeuron: an encoding cut short, whole, or
\* followed by one more byte or one more gene.
ByteInputs(out) == Prefixes(out) \cup { out \o <<0>>, out \o <<0, 0, 0, 7>> }

\* Positive deviations: 1, 2, 3, and host ints outside int32: 2^31, 2^32 + 2.
DevVals ==
    { IntWord(1), IntWord(2), IntWord(3),
      <<0, 0, 0, 0, 128, 0, 0, 0>>, <<0, 0, 0, 1, 0, 0, 0, 2>> }

NoArgs == [sensors |-> <<>>, actions |-> <<>>, front |-> <<>>, back |-> <<>>]

NoRet == [op |-> "none", kind |-> "none", arg |-> <<>>, val |-> <<>>]

\* No slice allocated.
NoHeap == <<>>

\* No channel made.
NoChans == <<>>

\* No call recorded.
NoCalls == <<>>

----------------------------------------------------------------------------
\* Neural network (front/back form)

\* No network (nil).
NoNet == [nil |-> TRUE, sensors |-> <<>>, actions |-> <<>>,
          front |-> <<>>, back |-> <<>>]

\* a < b on Go strings: byte by byte, a proper prefix first.
RECURSIVE StrLess(_, _)
StrLess(a, b) ==
    IF a = <<>> THEN b # <<>>
    ELSE IF b = <<>> THEN FALSE
    ELSE IF a[1] # b[1] THEN a[1] < b[1]
    ELSE StrLess(Tail(a), Tail(b))

\* sort.Strings on the keys of a map.
RECURSIVE SortStrings(_)
SortStrings(S) ==
    IF S = {} THEN <<>>
    ELSE LET m == CHOOSE x \in S : \A y \in S \ {x} : StrLess(x, y)
         IN  <<m>> \o SortStrings(S \ {m})

RECURSIVE SortStringsDown(_)
SortStringsDown(S) ==
    IF S = {} THEN <<>>
    ELSE LET m == CHOOSE x \in S : \A y \in S \ {x} : StrLess(y, x)
         IN  <<m>> \o SortStringsDown(S \ {m})

UsortDescending(list) == SortStringsDown({ list[i] : i \in 1..Len(list) })

\* usort: the keys of buf, sorted.
Usort(list) == SortStrings({ list[i] : i \in 1..Len(list) })

NetErr(msg, index) ==
    [kind |-> "err", msg |-> msg, index |-> index, net |-> NoNet]

FirstMismatchLast(layer, want) ==
    CHOOSE i \in 0..(Len(layer) - 1) :
        /\ GetSize(layer[i + 1]) # want
        /\ \A j \in (i + 1)..(Len(layer) - 1) : GetSize(layer[j + 1]) = want

\* The lowest index (from 0) of a neuron of the layer whose size is not want.
FirstMismatch(layer, want) ==
    CHOOSE i \in 0..(Len(layer) - 1) :
        /\ GetSize(layer[i + 1]) # want
        /\ \A j \in 0..(i - 1) : GetSize(layer[j + 1]) = want

HasMismatch(layer, want) == \E i \in 1..Len(layer) : GetSize(layer[i]) # want

NewNeuralNetNoBackCheck(sensors, actions, frontNeuronSet, backNeuronSet) ==
    LET sortedSensors == Usort(sensors)
        sortedActions == Usort(actions)
        sensorsCount  == Len(sortedSensors)
        actionsCount  == Len(sortedActions)
    IN  IF sensorsCount = 0 THEN NetErr("no sensor supplied", 0)
        ELSE IF actionsCount = 0 THEN NetErr("no action supplied", 0)
        ELSE IF Len(frontNeuronSet) # actionsCount THEN NetErr("front neurons", 0)
        ELSE IF Len(backNeuronSet) # actionsCount THEN NetErr("back neurons", 0)
        ELSE IF HasMismatch(frontNeuronSet, sensorsCount)
             THEN NetErr("fron neuron", FirstMismatch(frontNeuronSet, sensorsCount))
        ELSE [kind |-> "ok", msg |-> "", index |-> 0,
              net |-> [nil |-> FALSE, sensors |-> sortedSensors,
                       actions |-> sortedActions,
                       front |-> frontNeuronSet, back |-> backNeuronSet]]

\* NewNeuralNet: the network, or the error of the first check that fails.
NewNeuralNet(sensors, actions, frontNeuronSet, backNeuronSet) ==
    LET sortedSensors == Usort(sensors)
        sortedActions == Usort(actions)
        sensorsCount  == Len(sortedSensors)
        actionsCount  == Len(sortedActions)
    IN  IF sensorsCount = 0 THEN NetErr("no sensor supplied", 0)
        ELSE IF actionsCount = 0 THEN NetErr("no action supplied", 0)
        ELSE IF Len(frontNeuronSet) # actionsCount THEN NetErr("front neurons", 0)
        ELSE IF Len(backNeuronSet) # actionsCount THEN NetErr("back neurons", 0)
        ELSE IF HasMismatch(frontNeuronSet, sensorsCount)
             THEN NetErr("fron neuron", FirstMismatch(frontNeuronSet, sensorsCount))
        ELSE IF HasMismatch(backNeuronSet, actionsCount)
             THEN NetErr("back neuron", FirstMismatch(backNeuronSet, actionsCount))
        ELSE [kind |-> "ok", msg |-> "", index |-> 0,
              net |-> [nil |-> FALSE, sensors |-> sortedSensors,
                       actions |-> sortedActions,
                       front |-> frontNeuronSet, back |-> backNeuronSet]]

\* GetActions, GetSensors: a copy of the stored slice.
GetActions(n) == [i \in 1..Len(n.actions) |-> n.actions[i]]

GetSensors(n) == [i \in 1..Len(n.sensors) |-> n.sensors[i]]

CheckInputNoLen(n, incoming) ==
    \A key \in DOMAIN incoming : \E i \in 1..Len(n.sensors) : n.sensors[i] = key

\* checkInput: TRUE when it returns nil.
CheckInput(n, incoming) ==
    /\ Cardinality(DOMAIN incoming) = Len(n.sensors)
    /\ \A key \in DOMAIN incoming : \E i \in 1..Len(n.sensors) : n.sensors[i] = key

FrontInputReversed(n, incoming) ==
    [j \in 1..Cardinality(DOMAIN incoming) |->
        LET k == Len(n.sensors) + 1 - j
        IN  IF k >= 1 /\ n.sensors[k] \in DOMAIN incoming
            THEN incoming[n.sensors[k]] ELSE 0]

\* The input slice Compute builds for the front neurons: len(incoming)
\* float64, the sensors' values in the order of net.sensors.
FrontInput(n, incoming) ==
    [j \in 1..Cardinality(DOMAIN incoming) |->
        IF j <= Len(n.sensors) /\ n.sensors[j] \in DOMAIN incoming
        THEN incoming[n.sensors[j]] ELSE 0]

NoResult == <<>>

\* neuralnet.Compute: "err" from checkInput, "panic" from a neuron, or the
\* map from action to bool.
NetCompute(n, incoming) ==
    IF ~CheckInput(n, incoming) THEN [kind |-> "err", val |-> NoResult]
    ELSE LET input  == FrontInput(n, incoming)
             first  == [i \in 1..Len(n.front) |-> NeuronCompute(n.front[i], input)]
             middle == [i \in 1..Len(n.actions) |->
                          IF i <= Len(n.front) THEN first[i].val ELSE 0]
             \* float64(value): an int counted in halves
             floats == [j \in 1..Len(middle) |-> 2 * middle[j]]
             second == [i \in 1..Len(n.back) |-> NeuronCompute(n.back[i], floats)]
         IN  IF \/ \E i \in 1..Len(n.front) : first[i].kind = "panic"
                \/ Len(n.front) > Len(n.actions)
                \/ \E i \in 1..Len(n.back) : second[i].kind = "panic"
                \/ Len(n.back) > Len(n.actions)
             THEN [kind |-> "panic", val |-> NoResult]
             ELSE [kind |-> "ok",
                   val |-> [a \in { n.actions[i] : i \in 1..Len(n.back) } |->
                              LET i == CHOOSE k \in 1..Len(n.back) : n.actions[k] = a
                              IN  second[i].val > 0]]

CurrentWide(count) == <<0, 0>> \o PutUint16(count)

\* current after binary.BigEndian.PutUint16(current[:], uint16(count)):
\* bytes 2 and 3 of the [4]byte are never written.
Current(count) == PutUint16(count) \o <<0, 0>>

\* The names of a set, each followed by 0.
WriteStrings(names) ==
    Current(Len(names)) \o Concat([i \in 1..Len(names) |-> names[i] \o <<0>>])

\* A layer: Save reads 2 + 4*size bytes from each neuron's Marshal channel.
WriteNeurons(layer) ==
    Current(Len(layer))
        \o Concat([i \in 1..Len(layer) |->
                     SubSeq(MarshalBytes(layer[i]), 1, 2 + 4 * GetSize(layer[i]))])

\* buf in Save, tail included.
SaveBuf(n) ==
    WriteStrings(n.sensors) \o WriteStrings(n.actions)
        \o WriteNeurons(n.front) \o WriteNeurons(n.back) \o <<0, 0, 0, 0>>

\* The bytes Save writes to out: the header, then buf.
SaveBytes(n) == Current(Len(SaveBuf(n))) \o SaveBuf(n)

\* input.Read(p) with len(p) = n on the rest of a stream. A reader hands
\* over at most chunk bytes a call (0: all it holds) and, asked for no
\* byte at the end of the stream, answers io.EOF when strict (bytes.Reader,
\* io.Pipe) and nil otherwise (os.File).
ReadOn(rest, n, reader) ==
    IF n = 0 THEN [err |-> reader.strict /\ rest = <<>>, got |-> <<>>, rest |-> rest]
    ELSE IF rest = <<>> THEN [err |-> TRUE, got |-> <<>>, rest |-> rest]
    ELSE LET avail == IF reader.chunk > 0 /\ reader.chunk < Len(rest)
                      THEN reader.chunk ELSE Len(rest)
             k     == IF n < avail THEN n ELSE avail
         IN  [err |-> FALSE, got |-> SubSeq(rest, 1, k),
              rest |-> SubSeq(rest, k + 1, Len(rest))]

\* A reader that delivers all it holds.
Plain == [strict |-> FALSE, chunk |-> 0]

\* input.Read(p) with len(p) = n on the rest of a stream that delivers all
\* it holds: n bytes or what is left; io.EOF when nothing is left.
Read(rest, n) == ReadOn(rest, n, Plain)

\* A zeroed buffer of n bytes after a Read that got `got`.
Filled(got, n) == got \o Zeros(n - Len(got))

Failed(rest) == [err |-> TRUE, val |-> <<>>, rest |-> rest]

\* readFile: NewNeuron(io.Reader).
ReadFileOn(rest, reader) ==
    LET r1 == ReadOn(rest, 2, reader)
    IN  IF r1.err THEN Failed(rest)
        ELSE LET buf  == Filled(r1.got, 2)
                 size == 4 * Uint16(buf)
                 r2   == ReadOn(r1.rest, size, reader)
             IN  IF r2.err THEN Failed(r2.rest)
                 ELSE LET n == NeuronFromBytes(buf \o Filled(r2.got, size))
                      IN  IF n.kind = "ok"
                          THEN [err |-> FALSE, val |-> n.neu, rest |-> r2.rest]
                          ELSE Failed(r2.rest)

ReadFile(rest) == ReadFileOn(rest, Plain)

RECURSIVE LoadNeuronsLoop(_, _, _)
LoadNeuronsLoop(rest, size, res) ==
    IF Len(res) = size THEN [err |-> FALSE, val |-> res, rest |-> rest]
    ELSE LET r == ReadFile(rest)
         IN  IF r.err THEN Failed(r.rest)
             ELSE LoadNeuronsLoop(r.rest, size, Append(res, r.val))

\* loadNeurons
LoadNeurons(rest) ==
    LET r == Read(rest, 4)
    IN  IF r.err THEN Failed(rest)
        ELSE LoadNeuronsLoop(r.rest, Uint16(Filled(r.got, 4)), <<>>)

\* The inner loop of loadStrings: bytes up to the first 0.
RECURSIVE LoadString(_, _)
LoadString(rest, str) ==
    LET r == Read(rest, 1)
    IN  IF r.err THEN Failed(rest)
        ELSE IF r.got[1] = 0 THEN [err |-> FALSE, val |-> str, rest |-> r.rest]
        ELSE LoadString(r.rest, Append(str, r.got[1]))

RECURSIVE LoadStringsLoop(_, _, _)
LoadStringsLoop(rest, size, set) ==
    IF Len(set) = size THEN [err |-> FALSE, val |-> set, rest |-> rest]
    ELSE LET r == LoadString(rest, <<>>)
         IN  IF r.err THEN Failed(r.rest)
             ELSE LoadStringsLoop(r.rest, size, Append(set, r.val))

\* loadStrings
LoadStrings(rest) ==
    LET r == Read(rest, 4)
    IN  IF r.err THEN Failed(rest)
        ELSE LoadStringsLoop(r.rest, Uint16(Filled(r.got, 4)), <<>>)

\* LoadNet on a stream holding the bytes `input`.
LoadNet(input) ==
    LET h == Read(input, 4)
    IN  IF h.err THEN NetErr("read", 0)
        ELSE LET sensors == LoadStrings(h.rest)
             IN  IF sensors.err THEN NetErr("read", 0)
        ELSE LET actions == LoadStrings(sensors.rest)
             IN  IF actions.err THEN NetErr("read", 0)
        ELSE LET front == LoadNeurons(actions.rest)
             IN  IF front.err THEN NetErr("read", 0)
        ELSE LET back == LoadNeurons(front.rest)
             IN  IF back.err THEN NetErr("read", 0)
        ELSE NewNeuralNet(sensors.val, actions.val, front.val, back.val)

----------------------------------------------------------------------------
\* Neural network (layered form)

NoLayers == [nil |-> TRUE, sensors |-> <<>>, actions |-> <<>>, neurons |-> <<>>]

LayersErr(msg) == [kind |-> "err", msg |-> msg, net |-> NoLayers]

\* The size every neuron of layer i must have: the number of sensors for the
\* first layer, the length of the layer before for the others.
Count(neurons, sensorsCount, i) ==
    IF i = 1 THEN sensorsCount ELSE Len(neurons[i - 1])

NewNeuralNetLayersNoLast(sensors, actions, neurons) ==
    LET sortedSensors == Usort(sensors)
        sortedActions == Usort(actions)
        sensorsCount  == Len(sortedSensors)
        actionsCount  == Len(sortedActions)
    IN  IF Len(neurons) = 0 THEN LayersErr("no neuron supplied")
        ELSE IF sensorsCount = 0 THEN LayersErr("no sensor supplied")
        ELSE IF actionsCount = 0 THEN LayersErr("no action supplied")
        ELSE IF \E i \in 1..Len(neurons) :
                    HasMismatch(neurons[i], Count(neurons, sensorsCount, i))
             THEN LayersErr("group")
        ELSE [kind |-> "ok", msg |-> "",
              net |-> [nil |-> FALSE, sensors |-> sortedSensors,
                       actions |-> sortedActions, neurons |-> neurons]]

\* NewNeuralNet of the layered form.
NewNeuralNetLayers(sensors, actions, neurons) ==
    LET sortedSensors == Usort(sensors)
        sortedActions == Usort(actions)
        sensorsCount  == Len(sortedSensors)
        actionsCount  == Len(sortedActions)
    IN  IF Len(neurons) = 0 THEN LayersErr("no neuron supplied")
        ELSE IF sensorsCount = 0 THEN LayersErr("no sensor supplied")
        ELSE IF actionsCount = 0 THEN LayersErr("no action supplied")
        ELSE IF \E i \in 1..Len(neurons) :
                    HasMismatch(neurons[i], Count(neurons, sensorsCount, i))
             THEN LayersErr("group")
        ELSE IF Len(neurons[Len(neurons)]) # actionsCount THEN LayersErr("last")
        ELSE [kind |-> "ok", msg |-> "",
              net |-> [nil |-> FALSE, sensors |-> sortedSensors,
                       actions |-> sortedActions, neurons |-> neurons]]

\* The bytes of a stream in the layout of the layered Save: the header,
\* the names, the number of layers, every layer, the tail.
LayersSaveBuf(n) ==
    WriteStrings(n.sensors) \o WriteStrings(n.actions)
        \o Current(Len(n.neurons))
        \o Concat([i \in 1..Len(n.neurons) |-> WriteNeurons(n.neurons[i])])
        \o <<0, 0, 0, 0>>

LayersSaveBytes(n) == Current(Len(LayersSaveBuf(n))) \o LayersSaveBuf(n)

RECURSIVE LoadLayersLoop(_, _, _)
LoadLayersLoop(rest, size, neurons) ==
    IF Len(neurons) = size THEN [err |-> FALSE, val |-> neurons, rest |-> rest]
    ELSE LET r == LoadNeurons(rest)
         IN  IF r.err THEN Failed(r.rest)
             ELSE LoadLayersLoop(r.rest, size, Append(neurons, r.val))

\* LoadNet of the layered form on a stream holding the bytes `input`.
LoadNetLayers(input) ==
    LET h == Read(input, 4)
    IN  IF h.err THEN LayersErr("read")
        ELSE LET sensors == LoadStrings(h.rest)
             IN  IF sensors.err THEN LayersErr("read")
        ELSE LET actions == LoadStrings(sensors.rest)
             IN  IF actions.err THEN LayersErr("read")
        ELSE LET c == Read(actions.rest, 4)
             IN  IF c.err THEN LayersErr("read")
        ELSE LET neurons == LoadLayersLoop(c.rest, Uint16(Filled(c.got, 4)), <<>>)
             IN  IF neurons.err THEN LayersErr("read")
        ELSE NewNeuralNetLayers(sensors.val, actions.val, neurons.val)

\* The loop of Compute over the layers: every neuron of a layer computes on
\* partial, and the results, as float64, are the next partial.
RECURSIVE Forward(_, _)
Forward(layers, partial) ==
    IF layers = <<>> THEN [kind |-> "ok", val |-> partial]
    ELSE LET step == [i \in 1..Len(Head(layers)) |-> NeuronCompute(Head(layers)[i], partial)]
         IN  IF \E i \in 1..Len(step) : step[i].kind = "panic"
             THEN [kind |-> "panic", val |-> <<>>]
             ELSE Forward(Tail(layers), [i \in 1..Len(step) |-> 2 * step[i].val])

\* neuralnet.Compute of the layered form: "err" from checkInput, "panic"
\* from a neuron or from partial[i] out of range, or the map from action
\* to bool.
ComputeLayers(n, incoming) ==
    IF ~CheckInput(n, incoming) THEN [kind |-> "err", val |-> NoResult]
    ELSE LET last == Forward(n.neurons, FrontInput(n, incoming))
         IN  IF last.kind = "panic" \/ Len(last.val) < Len(n.actions)
             THEN [kind |-> "panic", val |-> NoResult]
             ELSE [kind |-> "ok",
                   val |-> [a \in { n.actions[i] : i \in 1..Len(n.actions) } |->
                              LET i == CHOOSE k \in 1..Len(n.actions) : n.actions[k] = a
                              IN  last.val[i] > 0]]

\* neuralnet.GetChild(dev), draws[i][j] being the draws of neuron j of layer i.
GetChild(n, dev, draws) ==
    LET child(i, j) == Child(n.neurons[i][j], dev, draws[i][j])
    IN  IF \E i \in 1..Len(n.neurons) : \E j \in 1..Len(n.neurons[i]) :
               child(i, j).kind = "panic"
        THEN [kind |-> "panic", net |-> NoLayers]
        ELSE [kind |-> "ok",
              net |-> [nil |-> FALSE, sensors |-> n.sensors, actions |-> n.actions,
                       neurons |-> [i \in 1..Len(n.neurons) |->
                                      [j \in 1..Len(n.neurons[i]) |-> child(i, j).val]]]]

\* The genes of a layered network: layer, neuron, index.
GenesOf(n) ==
    UNION { UNION { { <<i, j, k>> : k \in 1..Len(n.neurons[i][j]) } :
                    j \in 1..Len(n.neurons[i]) } :
            i \in 1..Len(n.neurons) }

\* The draws of a call of GetChild: one for every gene of the network.
DrawsNet(n, dev) ==
    LET top == IF ToInt32(dev) <= 0 THEN 0 ELSE ToInt32(dev) - 1
    IN  { [i \in 1..Len(n.neurons) |->
             [j \in 1..Len(n.neurons[i]) |->
                [k \in 1..Len(n.neurons[i][j]) |-> d[<<i, j, k>>]]]] :
          d \in [GenesOf(n) -> 0..top] }

----------------------------------------------------------------------------
\* The neuron and its callers

Init ==
    /\ neu \in { NewNeuronInts(v) : v \in GeneVecs }
    /\ net = NoNet
    /\ args = NoArgs
    /\ ret = NoRet
    /\ heap = NoHeap
    /\ chans = NoChans
    /\ calls = NoCalls

\* A caller collects every byte neu.Marshal() delivers.
MarshalCall ==
    /\ ret' = [op |-> "Marshal", kind |-> "ok", arg |-> <<>>,
               val |-> MarshalBytes(neu)]
    /\ UNCHANGED <<neu, net, args, heap, chans, calls>>

\* NewNeuron([]byte) on the collected bytes, whole or cut short.
NewNeuronBytesCall ==
    /\ ret.op = "Marshal"
    /\ \E input \in ByteInputs(ret.val) :
          LET r == NeuronFromBytes(input)
          IN  ret' = [op |-> "NewNeuronBytes", kind |-> r.kind,
                      arg |-> [input |-> input, whole |-> input = ret.val],
                      val |-> r.neu]
    /\ UNCHANGED <<neu, net, args, heap, chans, calls>>

Readers == { [strict |-> e, chunk |-> c] : e \in BOOLEAN, c \in { 0, 3 } }

\* NewNeuron(io.Reader) on a stream holding the bytes; rest is what the
\* stream still holds when the call returns.
NewNeuronReaderCall ==
    /\ ret.op = "Marshal"
    /\ \E input \in ByteInputs(ret.val), reader \in Readers :
          LET r == ReadFileOn(input, reader)
          IN  ret' = [op |-> "NewNeuronReader",
                      kind |-> IF r.err THEN "err" ELSE "ok",
                      arg |-> [input |-> input, whole |-> input = ret.val,
                               reader |-> reader, rest |-> r.rest],
                      val |-> r.val]
    /\ UNCHANGED <<neu, net, args, heap, chans, calls>>

Next == MarshalCall \/ NewNeuronBytesCall \/ NewNeuronReaderCall

Spec == Init /\ [][Next]_vars

ComputeInit ==
    /\ neu \in { NewNeuronInts(v) : v \in SmallVecs }
    /\ net = NoNet
    /\ args = NoArgs
    /\ ret = NoRet
    /\ heap = NoHeap
    /\ chans = NoChans
    /\ calls = NoCalls

ComputeCall ==
    /\ \E data \in ParamVecs :
          LET r == NeuronCompute(neu, data)
          IN  ret' = [op |-> "Compute", kind |-> r.kind, arg |-> data, val |-> r.val]
    /\ UNCHANGED <<neu, net, args, heap, chans, calls>>

ComputeNext == ComputeCall \/ MarshalCall

ComputeSpec == ComputeInit /\ [][ComputeNext]_vars

ChildCall ==
    /\ \E dev \in DevVals : \E draws \in Draws(GetSize(neu), dev) :
          LET r == Child(neu, dev, draws)
          IN  ret' = [op |-> "Child", kind |-> r.kind, arg |-> dev, val |-> r.val]
    /\ UNCHANGED <<neu, net, args, heap, chans, calls>>

ChildNext == ChildCall \/ MarshalCall

ChildSpec == ComputeInit /\ [][ChildNext]_vars

----------------------------------------------------------------------------
\* Inputs for the networks

\* "b" and "ab".
NameVals == { <<98>>, <<97, 98>> }

\* Lists of names in any order, with repetitions.
NameLists == UNION { [1..n -> NameVals] : n \in 0..(MaxNames + 1) }

\* The first k names in canonical order, for every k.
SortedLists ==
    { SubSeq(SortStrings(NameVals), 1, k) : k \in 0..Cardinality(NameVals) }

Distinct(list) == Cardinality({ list[i] : i \in 1..Len(list) })

ShapeNeuron(n) == [i \in 1..n |-> IntWord(i)]

\* Layers of up to MaxLayer neurons of any sizes up to MaxLen.
AllLayers ==
    UNION { [1..k -> { ShapeNeuron(n) : n \in 0..MaxLen }] : k \in 0..MaxLayer }

FitLayer(count, size) == [k \in 1..count |-> ShapeNeuron(size)]

\* Layers whose neurons all have the same size.
UniformLayers == { FitLayer(k, n) : k \in 0..MaxLayer, n \in 0..MaxLen }

\* Constructor arguments: every list of names with layers that fit it, and,
\* with names in canonical order, every layer against every uniform layer.
NetArgs ==
    { [sensors |-> s, actions |-> a,
       front |-> FitLayer(Distinct(a), Distinct(s)),
       back |-> FitLayer(Distinct(a), Distinct(a))] : s \in NameLists, a \in NameLists }
    \cup
    { [sensors |-> s, actions |-> a, front |-> f, back |-> b] :
        s \in SortedLists, a \in SortedLists, f \in AllLayers, b \in UniformLayers }
    \cup
    { [sensors |-> s, actions |-> a, front |-> f, back |-> b] :
        s \in SortedLists, a \in SortedLists, f \in UniformLayers, b \in AllLayers }

PatGene(pat, i) ==
    CASE pat = "up"   -> IntWord(i)
      [] pat = "alt"  -> IF i % 2 = 1 THEN IntWord(-i) ELSE IntWord(i)
      [] pat = "wide" -> IF i % 2 = 1 THEN <<0, 0, 0, 0, 128, 0, 0, 0>> ELSE IntWord(-1)

PatNeuron(pat, n) == [i \in 1..n |-> PatGene(pat, i)]

\* Valid constructor arguments: 1..MaxNames distinct names of each kind,
\* handed over in descending order, and layers that fit them.
ValidArgs(sensorNames, actionNames, pats) ==
    UNION { UNION {
        { [sensors |-> SortStringsDown(S), actions |-> SortStringsDown(A),
           front |-> f, back |-> b] :
            f \in [1..Cardinality(A) -> { PatNeuron(q, Cardinality(S)) : q \in pats }],
            b \in [1..Cardinality(A) -> { PatNeuron(q, Cardinality(A)) : q \in pats }] }
        : A \in { X \in SUBSET actionNames : X # {} /\ Cardinality(X) <= MaxNames } }
        : S \in { X \in SUBSET sensorNames : X # {} /\ Cardinality(X) <= MaxNames } }

Abc == { <<97>>, <<98>>, <<99>> }

\* Names "a", "b" and "c" with genes inside and outside int32, and the
\* sensors "a" and "a\x00" with small genes.
PersistArgs ==
    ValidArgs(Abc, Abc, { "up", "alt", "wide" })
        \cup ValidArgs({ <<97>>, <<97, 0>> }, { <<98>> }, { "up" })

\* "a", "b" and "c"; small genes.
RunArgs == ValidArgs(Abc, Abc, { "up", "alt" })

\* float64 inputs, in halves: -1 and 1.5.
InputVals == { -2, 3 }

Incomings == UNION { [K -> InputVals] : K \in SUBSET Abc }

\* Layers of the given lengths for sensorsCount sensors.
ShapeLayers(shape, sensorsCount, pat) ==
    [i \in 1..Len(shape) |->
        [j \in 1..shape[i] |->
            PatNeuron(pat, IF i = 1 THEN sensorsCount ELSE shape[i - 1])]]

\* Valid arguments of the layered constructor: one or two layers of one or
\* two neurons, names in descending order.
LayeredArgs ==
    { [sensors |-> SortStringsDown(S),
       actions |-> SortStringsDown({ <<96 + i>> : i \in 1..shape[Len(shape)] }),
       neurons |-> ShapeLayers(shape, Cardinality(S), q)] :
        S \in { { <<97>> }, { <<97>>, <<98>> } },
        shape \in { <<1>>, <<2>>, <<2, 1>>, <<1, 2>> },
        q \in { "alt" } }

\* Deviations handed to GetChild: 1, 2, 2^31 and 2^32 + 2.
NetDevVals ==
    { IntWord(1), IntWord(2),
      <<0, 0, 0, 0, 128, 0, 0, 0>>, <<0, 0, 0, 1, 0, 0, 0, 2>> }

----------------------------------------------------------------------------
\* The network and its callers

NetInit ==
    /\ neu = <<>>
    /\ net = NoNet
    /\ args \in NetArgs
    /\ ret = NoRet
    /\ heap = NoHeap
    /\ chans = NoChans
    /\ calls = NoCalls

NewNeuralNetCall ==
    /\ LET r == NewNeuralNet(args.sensors, args.actions, args.front, args.back)
       IN  /\ net' = r.net
           /\ ret' = [op |-> "NewNeuralNet", kind |-> r.kind,
                      arg |-> [msg |-> r.msg, index |-> r.index], val |-> <<>>]
    /\ UNCHANGED <<neu, args, heap, chans, calls>>

\* LoadNet on a stream laid out as Save lays it out, holding args as they are.
LoadNetCall ==
    /\ LET raw == [nil |-> FALSE, sensors |-> args.sensors, actions |-> args.actions,
                   front |-> args.front, back |-> args.back]
           r   == LoadNet(SaveBytes(raw))
       IN  /\ net' = r.net
           /\ ret' = [op |-> "LoadNet", kind |-> r.kind,
                      arg |-> [msg |-> r.msg, index |-> r.index], val |-> <<>>]
    /\ UNCHANGED <<neu, args, heap, chans, calls>>

GetNamesCall ==
    /\ ~net.nil
    /\ ret' = [op |-> "GetNames", kind |-> "ok", arg |-> <<>>,
               val |-> [sensors |-> GetSensors(net), actions |-> GetActions(net)]]
    /\ UNCHANGED <<neu, net, args, heap, chans, calls>>

NetNext == NewNeuralNetCall \/ LoadNetCall \/ GetNamesCall

NetSpec == NetInit /\ [][NetNext]_vars

PersistInit ==
    /\ neu = <<>>
    /\ args \in PersistArgs
    /\ net = NewNeuralNet(args.sensors, args.actions, args.front, args.back).net
    /\ ret = NoRet
    /\ heap = NoHeap
    /\ chans = NoChans
    /\ calls = NoCalls

\* net.Save(out) on a writer that takes every byte.
SaveCall ==
    /\ ~net.nil
    /\ ret' = [op |-> "Save", kind |-> "ok", arg |-> <<>>, val |-> SaveBytes(net)]
    /\ UNCHANGED <<neu, net, args, heap, chans, calls>>

\* LoadNet on the bytes Save wrote.
LoadSavedCall ==
    /\ ret.op = "Save"
    /\ LET r == LoadNet(ret.val)
       IN  ret' = [op |-> "LoadSaved", kind |-> r.kind, arg |-> ret.val, val |-> r.net]
    /\ UNCHANGED <<neu, net, args, heap, chans, calls>>

PersistNext == SaveCall \/ LoadSavedCall

PersistSpec == PersistInit /\ [][PersistNext]_vars

RunInit ==
    /\ neu = <<>>
    /\ args \in RunArgs
    /\ net = NewNeuralNet(args.sensors, args.actions, args.front, args.back).net
    /\ ret = NoRet
    /\ heap = NoHeap
    /\ chans = NoChans
    /\ calls = NoCalls

NetComputeCall ==
    /\ ~net.nil
    /\ \E incoming \in Incomings :
          LET r == NetCompute(net, incoming)
          IN  ret' = [op |-> "NetCompute", kind |-> r.kind, arg |-> incoming,
                      val |-> r.val]
    /\ UNCHANGED <<neu, net, args, heap, chans, calls>>

RunNext == NetComputeCall \/ GetNamesCall

RunSpec == RunInit /\ [][RunNext]_vars

\* binary.BigEndian.Uint32(body[i*4:]) panics unless body holds the four
\* bytes of value i.
HasUint32At(body, i) == Len(body) >= 4 * i + 4

\* The int that processBytes sends for value i.
ValueAt(body, i) ==
    LET value == SubSeq(body, 4 * i + 1, 4 * i + 4)
    IN  IF value[1] >= 128 THEN Sub64(FromUint32(value), Two32)
        ELSE FromUint32(value)

StoreBackwards(n, i, value) == [n EXCEPT ![Len(n) - i] = value]

\* neu[i] = value
Store(n, i, value) == [n EXCEPT ![i + 1] = value]

\* Inputs of neuronFromBytes that hold the size header: encodings of
\* neurons with positive and negative genes, cut short, whole or too long.
DecodeInputs ==
    { input \in UNION { ByteInputs(MarshalBytes(v)) :
                          v \in UNION { [1..n -> { IntWord(1), IntWord(-2) }] : n \in 0..MaxLen } } :
        Len(input) >= 2 }

\* neuronFromBytes has made its channels, started processBytes and made
\* neu.  ret is the caller: its input, its neu and its index i.  chans is
\* the goroutine: its index i and where it stands, "run" (between channel
\* operations), "res" or "ech" (blocked in a send of value), "end".
DecodeInit ==
    /\ neu = <<>>
    /\ net = NoNet
    /\ args = NoArgs
    /\ \E input \in DecodeInputs :
          ret = [op |-> "neuronFromBytes", kind |-> "running", arg |-> input,
                 val |-> [k \in 1..Uint16(input) |-> IntWord(0)], i |-> 0]
    /\ heap = NoHeap
    /\ chans = [i |-> 0, at |-> "run", value |-> IntWord(0)]
    /\ calls = NoCalls

\* processBytes runs up to its next send, or to its end.
ProcessStep ==
    /\ chans.at = "run"
    /\ LET body == SubSeq(ret.arg, 3, Len(ret.arg))
           size == Uint16(ret.arg)
       IN  chans' = IF chans.i >= size THEN [chans EXCEPT !.at = "end"]
                    ELSE IF HasUint32At(body, chans.i)
                         THEN [chans EXCEPT !.at = "res", !.value = ValueAt(body, chans.i)]
                         ELSE [chans EXCEPT !.at = "ech"]
    /\ UNCHANGED <<neu, net, args, ret, heap, calls>>

\* One turn of the caller's loop: leave it when i reaches size, else take
\* the error or the value that is being sent, else (default) go round.
Select ==
    /\ ret.kind = "running"
    /\ IF ret.i >= Uint16(ret.arg)
          THEN /\ ret' = [ret EXCEPT !.kind = "ok"]
               /\ UNCHANGED chans
          ELSE IF chans.at = "ech"
                  THEN /\ ret' = [ret EXCEPT !.kind = "err", !.val = <<>>]
                       /\ chans' = [chans EXCEPT !.at = "end"]
                  ELSE IF chans.at = "res"
                          THEN /\ ret' = [ret EXCEPT !.val = Store(ret.val, ret.i, chans.value),
                                                     !.i = @ + 1]
                               /\ chans' = [chans EXCEPT !.at = "run", !.i = @ + 1]
                          ELSE UNCHANGED <<ret, chans>>
    /\ UNCHANGED <<neu, net, args, heap, calls>>

DecodeNext == ProcessStep \/ Select

\* The goroutine and the caller are both scheduled again and again.
DecodeSpec ==
    DecodeInit /\ [][DecodeNext]_vars /\ WF_vars(ProcessStep) /\ WF_vars(Select)

\* Networks of one action over the sensors "a" and "b".
PureArgs == ValidArgs({ <<97>>, <<98>> }, { <<97>> }, { "up" })

\* Parameter lists of the neuron's size, and the empty one.
PureData(n) == [1..GetSize(n) -> InputVals] \cup { <<>> }

\* Maps over the network's sensors, and the empty one.
PureIncomings(n) == [{ n.sensors[i] : i \in 1..Len(n.sensors) } -> InputVals] \cup { <<>> }

\* A neuron and a network, and the calls of Compute made on them so far
\* with what each returned.
PureInit ==
    /\ neu \in { PatNeuron("alt", n) : n \in 0..MaxLen }
    /\ args \in PureArgs
    /\ net = NewNeuralNet(args.sensors, args.actions, args.front, args.back).net
    /\ ret = NoRet
    /\ heap = NoHeap
    /\ chans = NoChans
    /\ calls = NoCalls

PureComputeCall ==
    /\ Len(calls) < MaxLog
    /\ \E data \in PureData(neu) :
          LET r == NeuronCompute(neu, data)
          IN  /\ ret' = [op |-> "Compute", kind |-> r.kind, arg |-> data, val |-> r.val]
              /\ calls' = Append(calls, ret')
    /\ UNCHANGED <<neu, net, args, heap, chans>>

PureNetComputeCall ==
    /\ Len(calls) < MaxLog
    /\ \E incoming \in PureIncomings(net) :
          LET r == NetCompute(net, incoming)
          IN  /\ ret' = [op |-> "NetCompute", kind |-> r.kind, arg |-> incoming,
                         val |-> r.val]
              /\ calls' = Append(calls, ret')
    /\ UNCHANGED <<neu, net, args, heap, chans>>

PureNext == PureComputeCall \/ PureNetComputeCall

PureSpec == PureInit /\ [][PureNext]_vars

\* Arguments of the layered constructor: every list of names with one or
\* two layers that fit it, and, with names in canonical order, no layer,
\* any one layer, and any layer before or after every uniform layer.
LayersRawArgs ==
    { [sensors |-> s, actions |-> a,
       neurons |-> << FitLayer(Distinct(a), Distinct(s)) >>] : s \in NameLists, a \in NameLists }
    \cup
    { [sensors |-> s, actions |-> a,
       neurons |-> << FitLayer(2, Distinct(s)), FitLayer(Distinct(a), 2) >>] :
        s \in NameLists, a \in NameLists }
    \cup
    { [sensors |-> s, actions |-> a, neurons |-> l] :
        s \in SortedLists, a \in SortedLists,
        l \in { <<>> } \cup { << f >> : f \in AllLayers }
                \cup { << f, b >> : f \in AllLayers, b \in UniformLayers }
                \cup { << f, b >> : f \in UniformLayers, b \in AllLayers } }

\* Input maps over the names, and a map with another key.
LayersIncomings ==
    UNION { [K -> InputVals] : K \in SUBSET NameVals } \cup { [K \in { <<97>> } |-> 3] }

LayersRunInit ==
    /\ neu = <<>>
    /\ net = NoLayers
    /\ args \in LayersRawArgs
    /\ ret = NoRet
    /\ heap = NoHeap
    /\ chans = NoChans
    /\ calls = NoCalls

\* The network is made first, by one call of NewNeuralNet or of LoadNet.
NewNeuralNetLayersCall ==
    /\ ret = NoRet
    /\ LET r == NewNeuralNetLayers(args.sensors, args.actions, args.neurons)
       IN  /\ net' = r.net
           /\ ret' = [op |-> "NewNeuralNet", kind |-> r.kind, arg |-> r.msg, val |-> <<>>]
    /\ UNCHANGED <<neu, args, heap, chans, calls>>

\* LoadNet on a stream in Save's layout, holding args as they are.
LoadNetLayersCall ==
    /\ ret = NoRet
    /\ LET r == LoadNetLayers(LayersSaveBytes(args))
       IN  /\ net' = r.net
           /\ ret' = [op |-> "LoadNet", kind |-> r.kind, arg |-> r.msg, val |-> <<>>]
    /\ UNCHANGED <<neu, args, heap, chans, calls>>

ComputeLayersCall ==
    /\ ~net.nil
    /\ \E incoming \in LayersIncomings :
          LET r == ComputeLayers(net, incoming)
          IN  ret' = [op |-> "Compute", kind |-> r.kind, arg |-> incoming, val |-> r.val]
    /\ UNCHANGED <<neu, net, args, heap, chans, calls>>

LayersRunNext == NewNeuralNetLayersCall \/ LoadNetLayersCall \/ ComputeLayersCall

LayersRunSpec == LayersRunInit /\ [][LayersRunNext]_vars

GetChildInit ==
    /\ neu = <<>>
    /\ args \in LayeredArgs
    /\ net = NewNeuralNetLayers(args.sensors, args.actions, args.neurons).net
    /\ ret = NoRet
    /\ heap = NoHeap
    /\ chans = NoChans
    /\ calls = NoCalls

GetChildCall ==
    /\ ~net.nil
    /\ \E dev \in NetDevVals : \E draws \in DrawsNet(net, dev) :
          LET r == GetChild(net, dev, draws)
          IN  ret' = [op |-> "GetChild", kind |-> r.kind, arg |-> dev, val |-> r.net]
    /\ UNCHANGED <<neu, net, args, heap, chans, calls>>

GetChildNext == GetChildCall

GetChildSpec == GetChildInit /\ [][GetChildNext]_vars

----------------------------------------------------------------------------
\* Slices and who holds them
\*
\* heap[a] is the backing array of the slice made at address a: names, the
\* neurons of a layer, the layers of a network (addresses) or the genes of a
\* neuron.  Here neu, and the fields of net and args, are addresses.

\* Most slices ever made.
MaxHeap == 10

Cell(kind, elems) == [kind |-> kind, elems |-> elems]

\* make: the heap with one more slice, at address Len(h) + 1.
Alloc(h, cell) == Append(h, cell)

RECURSIVE AllocAll(_, _)
AllocAll(h, cells) ==
    IF cells = <<>> THEN h ELSE AllocAll(Alloc(h, Head(cells)), Tail(cells))

MakeChildInPlace(h, parent, genes) ==
    [heap |-> [h EXCEPT ![parent].elems = genes], addr |-> parent]

\* child := make(neuron, neu.GetSize()), filled with the genes.
MakeChild(h, parent, genes) ==
    [heap |-> Alloc(h, Cell("genes", genes)), addr |-> Len(h) + 1]

CopyOfShared(h, a) == [heap |-> h, addr |-> a]

\* make and copy: a new slice with the elements of the slice at a.
CopyOf(h, a) == [heap |-> Alloc(h, h[a]), addr |-> Len(h) + 1]

\* The layers of a network, as addresses.
LayerAddrs(h, n) ==
    IF n.form = "fb" THEN <<n.front, n.back>> ELSE h[n.neurons].elems

\* What the network at n holds: names and the neurons of every layer.
NetValue(h, n) ==
    [sensors |-> h[n.sensors].elems,
     actions |-> h[n.actions].elems,
     neurons |-> [i \in 1..Len(LayerAddrs(h, n)) |-> h[LayerAddrs(h, n)[i]].elems]]

\* The caller's slices before the constructor is called: the names, the
\* layers, a spare layer that is not handed over, and the genes of a neuron.
CallerHeaps ==
    { [heap |-> << Cell("names", << <<97>> >>), Cell("names", << <<98>> >>),
                   Cell("neurons", << PatNeuron("alt", 1) >>),
                   Cell("neurons", << PatNeuron("up", 1) >>),
                   Cell("neurons", << PatNeuron("up", 2) >>),
                   Cell("genes", PatNeuron("alt", 1)) >>,
       args |-> [form |-> "fb", sensors |-> 1, actions |-> 2, front |-> 3,
                 back |-> 4, held |-> 1..4, spare |-> 5],
       neu  |-> 6],
      [heap |-> << Cell("names", << <<97>> >>), Cell("names", << <<98>> >>),
                   Cell("neurons", << PatNeuron("alt", 1) >>),
                   Cell("layers", <<3>>),
                   Cell("neurons", << PatNeuron("up", 2) >>),
                   Cell("genes", PatNeuron("alt", 1)) >>,
       args |-> [form |-> "layers", sensors |-> 1, actions |-> 2, neurons |-> 4,
                 held |-> 1..4, spare |-> 5],
       neu  |-> 6] }

\* What a caller stores into a slice it holds: another name, another
\* neuron, one of its own layers.
WriteVals(h, a, kind) ==
    CASE kind = "names"   -> { <<122>> }
      [] kind = "neurons" -> { <<>> }
      [] kind = "layers"  -> { a.spare } \cup { x \in a.held : h[x].kind = "neurons" }
      [] kind = "genes"   -> {}

GetOps ==
    { "GetSensors", "GetActions", "GetFrontNeurons", "GetBackNeurons", "GetNeurons" }

\* The accessors of a network, and the index handed to GetNeurons.
Accessors(h, n) ==
    IF n.form = "fb"
    THEN { [name |-> f, index |-> 0] : f \in GetOps \ { "GetNeurons" } }
    ELSE { [name |-> f, index |-> 0] : f \in { "GetSensors", "GetActions" } }
         \cup { [name |-> "GetNeurons", index |-> i] : i \in 0..Len(h[n.neurons].elems) }

\* The slice an accessor copies; 0 when GetNeurons returns nil.
AccessorAddr(h, n, name, index) ==
    CASE name = "GetSensors"      -> n.sensors
      [] name = "GetActions"      -> n.actions
      [] name = "GetFrontNeurons" -> n.front
      [] name = "GetBackNeurons"  -> n.back
      [] name = "GetNeurons"      ->
            IF index >= Len(h[n.neurons].elems) THEN 0
            ELSE h[n.neurons].elems[index + 1]

\* No call made yet; in this part a call returns an address, 0 for none.
NoCall == [op |-> "none", kind |-> "none", arg |-> <<>>, val |-> 0]

AliasInit ==
    /\ \E c \in CallerHeaps :
          /\ heap = c.heap
          /\ args = c.args
          /\ neu = c.neu
    /\ net = NoNet
    /\ ret = NoCall
    /\ chans = NoChans
    /\ calls = NoCalls

\* NewNeuralNet on the caller's slices: the names are sorted into new
\* slices, the slices of neurons are kept as they are handed over.
AliasNewNeuralNetCall ==
    /\ net.nil
    /\ LET v == NetValue(heap, args)
           r == IF args.form = "fb"
                THEN NewNeuralNet(v.sensors, v.actions, v.neurons[1], v.neurons[2])
                ELSE NewNeuralNetLayers(v.sensors, v.actions, v.neurons)
           a == Len(heap)
       IN  /\ ret' = [op |-> "NewNeuralNet", kind |-> r.kind, arg |-> <<>>, val |-> 0]
           /\ IF r.kind = "ok"
              THEN /\ heap' = AllocAll(heap, << Cell("names", r.net.sensors),
                                                Cell("names", r.net.actions) >>)
                   /\ net' = IF args.form = "fb"
                             THEN [nil |-> FALSE, form |-> "fb",
                                   sensors |-> a + 1, actions |-> a + 2,
                                   front |-> args.front, back |-> args.back]
                             ELSE [nil |-> FALSE, form |-> "layers",
                                   sensors |-> a + 1, actions |-> a + 2,
                                   neurons |-> args.neurons]
              ELSE UNCHANGED <<heap, net>>
    /\ UNCHANGED <<neu, args, chans, calls>>

\* The slice the last accessor returned.
Returned == IF ret.op \in GetOps /\ ret.val # 0 THEN { ret.val } ELSE {}

\* The caller stores into a slice it handed to the constructor or got from
\* an accessor.
CallerWriteCall ==
    /\ ~net.nil
    /\ \E a \in args.held \cup Returned : \E i \in 1..Len(heap[a].elems) :
          \E v \in WriteVals(heap, args, heap[a].kind) :
              heap' = [heap EXCEPT ![a].elems[i] = v]
    /\ UNCHANGED <<neu, net, args, ret, chans, calls>>

\* GetSensors, GetActions, GetFrontNeurons, GetBackNeurons, GetNeurons.
AccessorCall ==
    /\ ~net.nil
    /\ Len(heap) < MaxHeap
    /\ \E which \in Accessors(heap, net) :
          LET src == AccessorAddr(heap, net, which.name, which.index)
          IN  IF src = 0
              THEN /\ ret' = [op |-> which.name, kind |-> "ok",
                              arg |-> <<which.index>>, val |-> 0]
                   /\ heap' = heap
              ELSE /\ ret' = [op |-> which.name, kind |-> "ok",
                              arg |-> <<which.index>>, val |-> CopyOf(heap, src).addr]
                   /\ heap' = CopyOf(heap, src).heap
    /\ UNCHANGED <<neu, net, args, chans, calls>>

\* neu.Child(dev) on the neuron whose genes are at neu.
AliasChildCall ==
    /\ Len(heap) < MaxHeap
    /\ \E dev \in { IntWord(2), <<0, 0, 0, 0, 128, 0, 0, 0>> } :
       \E draws \in Draws(Len(heap[neu].elems), dev) :
          LET r == Child(heap[neu].elems, dev, draws)
              m == MakeChild(heap, neu, r.val)
          IN  IF r.kind = "ok"
              THEN /\ heap' = m.heap
                   /\ ret' = [op |-> "Child", kind |-> "ok", arg |-> dev, val |-> m.addr]
              ELSE /\ heap' = heap
                   /\ ret' = [op |-> "Child", kind |-> "panic", arg |-> dev, val |-> 0]
    /\ UNCHANGED <<neu, net, args, chans, calls>>

\* net.GetChild(dev): a new slice of layers, then a new slice for every
\* layer; the names are the parent's slices. The call returns the address
\* of the layers of the child.
AliasGetChildCall ==
    /\ ~net.nil
    /\ net.form = "layers"
    /\ Len(heap) + Len(heap[net.neurons].elems) + 1 <= MaxHeap
    /\ \E dev \in { IntWord(2), <<0, 0, 0, 0, 128, 0, 0, 0>> } :
       \E draws \in DrawsNet(NetValue(heap, net), dev) :
          LET r == GetChild(NetValue(heap, net), dev, draws)
              a == Len(heap)
              k == Len(heap[net.neurons].elems)
          IN  IF r.kind = "ok"
              THEN /\ heap' = AllocAll(heap,
                                << Cell("layers", [i \in 1..k |-> a + 1 + i]) >>
                                \o [i \in 1..k |-> Cell("neurons", r.net.neurons[i])])
                   /\ ret' = [op |-> "GetChild", kind |-> "ok", arg |-> dev,
                              val |-> a + 1]
              ELSE /\ heap' = heap
                   /\ ret' = [op |-> "GetChild", kind |-> "panic", arg |-> dev,
                              val |-> 0]
    /\ UNCHANGED <<neu, net, args, chans, calls>>

AliasNext ==
    \/ AliasNewNeuralNetCall
    \/ CallerWriteCall
    \/ AccessorCall
    \/ AliasChildCall
    \/ AliasGetChildCall

AliasSpec == AliasInit /\ [][AliasNext]_vars

----------------------------------------------------------------------------
\* Marshal and its consumers
\*
\* chans[c] is the channel made by the c-th call of Marshal with the
\* goroutine that feeds it: sent counts the bytes the goroutine has handed
\* over, got is what the consumer of the channel has received.  The channel
\* has no buffer: a send and its receive are one step.

CursorShared(cs, c) == Len(Concat([k \in 1..Len(cs) |-> cs[k].got]))

\* Where the goroutine of channel c stands in its own loop.
Cursor(cs, c) == cs[c].sent

MarshalInit ==
    /\ neu \in { PatNeuron("alt", n) : n \in 0..MaxLen }
    /\ net = NoNet
    /\ args = NoArgs
    /\ ret = NoRet
    /\ heap = NoHeap
    /\ chans = NoChans
    /\ calls = NoCalls

\* neu.Marshal(): a new channel and a new goroutine.
MarshalGo ==
    /\ Len(chans) < MaxCalls
    /\ chans' = Append(chans, [sent |-> 0, got |-> <<>>, ended |-> FALSE])
    /\ UNCHANGED <<neu, net, args, ret, heap, calls>>

\* The goroutine of channel c sends its next byte and the consumer, which
\* reads 2 + 4*size bytes, receives it.
Receive ==
    /\ \E c \in 1..Len(chans) :
          /\ Len(chans[c].got) < 2 + 4 * GetSize(neu)
          /\ Cursor(chans, c) < Len(MarshalBytes(neu))
          /\ chans' = [chans EXCEPT
                          ![c].got = Append(@, MarshalBytes(neu)[Cursor(chans, c) + 1]),
                          ![c].sent = @ + 1]
    /\ UNCHANGED <<neu, net, args, ret, heap, calls>>

MarshalNext == MarshalGo \/ Receive

MarshalSpec == MarshalInit /\ [][MarshalNext]_vars

\* Whether channel c has been closed.  The goroutine returns after its
\* last send and no statement of the package closes a channel.
Closed(cs, c) == FALSE

\* A consumer that reads until the end of the sequence, as in
\* "for b := range ch" or "b, ok := <-ch; for ok": it receives the next
\* byte when the goroutine sends one, it sees the end when the channel
\* is closed, and it waits otherwise.
Range ==
    /\ \E c \in 1..Len(chans) :
          /\ ~chans[c].ended
          /\ IF Cursor(chans, c) < Len(MarshalBytes(neu))
                THEN chans' = [chans EXCEPT
                          ![c].got = Append(@, MarshalBytes(neu)[Cursor(chans, c) + 1]),
                          ![c].sent = @ + 1]
                ELSE /\ Closed(chans, c)
                     /\ chans' = [chans EXCEPT ![c].ended = TRUE]
    /\ UNCHANGED <<neu, net, args, ret, heap, calls>>

DrainNext == MarshalGo \/ Range

\* Goroutines and consumers are scheduled fairly.
DrainSpec == MarshalInit /\ [][DrainNext]_vars /\ WF_vars(Range)

\* The bits of a byte, the highest first.
Bits(b) == [k \in 1..8 |-> (b \div (2 ^ (8 - k))) % 2]

\* base32.HexEncoding.WithPadding(base32.NoPadding).EncodeToString(buf):
\* five bits a character, the last group filled up with zero bits, in the
\* alphabet 0..9, A..V.
EncodeToString(buf) ==
    LET bits   == Concat([i \in 1..Len(buf) |-> Bits(buf[i])]) \o <<0, 0, 0, 0>>
        count  == (8 * Len(buf) + 4) \div 5
        v(k)   == 16 * bits[5 * k - 4] + 8 * bits[5 * k - 3] + 4 * bits[5 * k - 2]
                      + 2 * bits[5 * k - 1] + bits[5 * k]
    IN  [k \in 1..count |-> IF v(k) < 10 THEN 48 + v(k) ELSE 55 + v(k)]

NeedHeader(n) == 2 + GetSize(n)

\* The number of bytes Save and String read from the channel of a neuron.
Need(n) == 2 + 4 * GetSize(n)

\* The neurons whose Marshal the call in progress reads, in order.
Todo ==
    CASE ret.op = "String"     -> << neu >>
      [] ret.op = "SaveLayers" -> Concat(net.neurons)
      [] OTHER                 -> net.front \o net.back

\* The goroutine of channel c, feeding from neuron n, has a byte to send.
Sending(cs, c, n) == Cursor(cs, c) < Len(MarshalBytes(n))

\* What Save has in buf after the tail, from the bytes it received.
ReceivedBuf ==
    LET got(a, b) == Concat([k \in 1..(b - a) |-> chans[a + k].got])
        f         == Len(net.front)
    IN  WriteStrings(net.sensors) \o WriteStrings(net.actions)
            \o Current(f) \o got(0, f)
            \o Current(Len(net.back)) \o got(f, f + Len(net.back))
            \o <<0, 0, 0, 0>>

\* Front/back networks over the names "a" and "b".
StepsArgs == ValidArgs({ <<97>>, <<98>> }, { <<97>>, <<98>> }, { "up", "alt" })

\* Save on a network, or String on a neuron, has been called: ret.arg
\* counts the neurons whose bytes have been read.
StepsInit ==
    /\ \/ /\ args \in StepsArgs
          /\ net = NewNeuralNet(args.sensors, args.actions, args.front, args.back).net
          /\ neu = <<>>
          /\ ret = [op |-> "Save", kind |-> "running", arg |-> 0, val |-> <<>>]
       \/ /\ args = NoArgs
          /\ net = NoNet
          /\ neu \in { PatNeuron("alt", n) : n \in 0..MaxLen }
          /\ ret = [op |-> "String", kind |-> "running", arg |-> 0, val |-> <<>>]
    /\ heap = NoHeap
    /\ chans = NoChans
    /\ calls = NoCalls

\* ch := neuron.Marshal()
StepsMarshal ==
    /\ ret.kind = "running"
    /\ ret.arg < Len(Todo)
    /\ Len(chans) = ret.arg
    /\ chans' = Append(chans, [sent |-> 0, got |-> <<>>, ended |-> FALSE])
    /\ UNCHANGED <<neu, net, args, ret, heap, calls>>

\* data := <-ch, inside "for i := 0; i < 2+4*neuron.GetSize(); i++".
StepsReceive ==
    /\ ret.kind = "running"
    /\ Len(chans) = ret.arg + 1
    /\ LET c == Len(chans)
           n == Todo[c]
       IN  /\ Len(chans[c].got) < Need(n)
           /\ Sending(chans, c, n)
           /\ chans' = [chans EXCEPT
                           ![c].got = Append(@, MarshalBytes(n)[Cursor(chans, c) + 1]),
                           ![c].sent = @ + 1]
    /\ UNCHANGED <<neu, net, args, ret, heap, calls>>

\* The loop over the bytes of a neuron is left.
StepsNextNeuron ==
    /\ ret.kind = "running"
    /\ Len(chans) = ret.arg + 1
    /\ Len(chans[Len(chans)].got) >= Need(Todo[Len(chans)])
    /\ ret' = [ret EXCEPT !.arg = @ + 1]
    /\ UNCHANGED <<neu, net, args, heap, chans, calls>>

\* Save writes the header and buf to out, which may fail; String encodes.
StepsReturn ==
    /\ ret.kind = "running"
    /\ ret.arg = Len(Todo)
    /\ IF ret.op = "String"
          THEN ret' = [ret EXCEPT !.kind = "ok", !.val = EncodeToString(chans[1].got)]
          ELSE \/ ret' = [ret EXCEPT !.kind = "ok",
                                     !.val = Current(Len(ReceivedBuf)) \o ReceivedBuf]
               \/ ret' = [ret EXCEPT !.kind = "err"]
    /\ UNCHANGED <<neu, net, args, heap, chans, calls>>

StepsNext == StepsMarshal \/ StepsReceive \/ StepsNextNeuron \/ StepsReturn

\* The caller and the goroutines are scheduled fairly.
StepsSpec == StepsInit /\ [][StepsNext]_vars /\ WF_vars(StepsNext)

\* What the layered Save has in buf after the tail, from the bytes it
\* received: the names, the number of layers, and for each layer its
\* length and the bytes of its neurons.
LayersReceivedBuf ==
    LET before(i) == Len(Concat(SubSeq(net.neurons, 1, i - 1)))
        layer(i)  == Current(Len(net.neurons[i]))
                        \o Concat([j \in 1..Len(net.neurons[i]) |-> chans[before(i) + j].got])
    IN  WriteStrings(net.sensors) \o WriteStrings(net.actions)
            \o Current(Len(net.neurons))
            \o Concat([i \in 1..Len(net.neurons) |-> layer(i)])
            \o <<0, 0, 0, 0>>

\* Layered networks of one or two layers, two gene patterns.
LayersSaveArgs ==
    { [sensors |-> SortStringsDown(S),
       actions |-> SortStringsDown({ <<96 + i>> : i \in 1..shape[Len(shape)] }),
       neurons |-> ShapeLayers(shape, Cardinality(S), q)] :
        S \in { { <<97>> }, { <<97>>, <<98>> } },
        shape \in { <<1>>, <<2>>, <<2, 1>>, <<1, 2>> },
        q \in { "up", "alt" } }

\* Save has been called on a layered network.
LayersSaveInit ==
    /\ neu = <<>>
    /\ args \in LayersSaveArgs
    /\ net = NewNeuralNetLayers(args.sensors, args.actions, args.neurons).net
    /\ ret = [op |-> "SaveLayers", kind |-> "running", arg |-> 0, val |-> <<>>]
    /\ heap = NoHeap
    /\ chans = NoChans
    /\ calls = NoCalls

\* value, ok := <-ch, inside "for ok": the next byte when the goroutine
\* sends one; ok = false when the channel is closed, which ends the loop
\* of this neuron, and after the last neuron Save writes to out (which may
\* fail) and returns; else Save waits.
LayersSaveRange ==
    /\ ret.kind = "running"
    /\ Len(chans) = ret.arg + 1
    /\ LET c == Len(chans)
           n == Todo[c]
       IN  IF Sending(chans, c, n)
           THEN /\ chans' = [chans EXCEPT
                               ![c].got = Append(@, MarshalBytes(n)[Cursor(chans, c) + 1]),
                               ![c].sent = @ + 1]
                /\ ret' = ret
           ELSE /\ Closed(chans, c)
                /\ chans' = [chans EXCEPT ![c].ended = TRUE]
                /\ IF ret.arg + 1 < Len(Todo)
                      THEN ret' = [ret EXCEPT !.arg = @ + 1]
                      ELSE \/ ret' = [ret EXCEPT !.arg = @ + 1, !.kind = "ok",
                                         !.val = Current(Len(LayersReceivedBuf))
                                                    \o LayersReceivedBuf]
                           \/ ret' = [ret EXCEPT !.arg = @ + 1, !.kind = "err"]
    /\ UNCHANGED <<neu, net, args, heap, calls>>

LayersSaveNext == StepsMarshal \/ LayersSaveRange

\* The caller and the goroutines are scheduled fairly.
LayersSaveSpec == LayersSaveInit /\ [][LayersSaveNext]_vars /\ WF_vars(LayersSaveNext)

----------------------------------------------------------------------------
\* Claims about the neuron

\* C1: every neuron built from a gene vector of host ints round-trips:
\* NewNeuron on the bytes collected from Marshal succeeds and Equals the
\* original.
NeuronRoundTripAnyInt ==
    (ret.op = "NewNeuronBytes" /\ ret.arg.whole)
        => (ret.kind = "ok" /\ Equals(ret.val, neu))

\* The value of 4 bytes read as a big-endian two's-complement int32.
Int32Of(b) == IF b[1] >= 128 THEN -Val32(Complement(b)) - 1 ELSE Val32(b)

RECURSIVE WeightedHalves(_, _, _)
WeightedHalves(n, data, k) ==
    IF k = 0 THEN 0
    ELSE WeightedHalves(n, data, k - 1) + data[k] * ToInt(n[k])

NeuronArityCheck ==
    (ret.op = "Compute" /\ Len(ret.arg) # GetSize(neu)) => ret.kind = "panic"

NeuronArityCheckWitness ==
    /\ ret.op = "Compute"
    /\ GetSize(neu) = 2
    /\ Len(ret.arg) = 1
    /\ ret.kind = "panic"

----------------------------------------------------------------------------
\* Claims about the network

SameLayer(a, b) ==
    /\ Len(a) = Len(b)
    /\ \A i \in 1..Len(a) : Equals(a[i], b[i])

\* C2: for every network returned by NewNeuralNet, LoadNet on the bytes
\* written by Save succeeds and returns a network with the same sensors,
\* the same actions, and front and back neurons equal position by position.
NetRoundTrip ==
    ret.op = "LoadSaved" =>
        /\ ret.kind = "ok"
        /\ ret.val.sensors = net.sensors
        /\ ret.val.actions = net.actions
        /\ SameLayer(ret.val.front, net.front)
        /\ SameLayer(ret.val.back, net.back)

\* A 4-byte field holding n: n as a big-endian uint16, then two zero bytes.
Hdr(n) == <<n \div 256, n % 256, 0, 0>>

NamesBlock(names) ==
    Hdr(Len(names)) \o Concat([i \in 1..Len(names) |-> Append(names[i], 0)])

LayerBlock(layer) ==
    Hdr(Len(layer)) \o Concat([i \in 1..Len(layer) |-> MarshalBytes(layer[i])])

SensorSet == { net.sensors[i] : i \in 1..Len(net.sensors) }

ActionSet == { net.actions[i] : i \in 1..Len(net.actions) }

\* C7: Compute returns an error, and no result map, if and only if the key
\* set of the input map differs from the sensor set.
NetInputValidation ==
    ret.op = "NetCompute" =>
        /\ ret.kind = "err" <=> DOMAIN ret.arg # SensorSet
        /\ ret.kind = "err" => ret.val = NoResult

\* Rejected: as many keys as sensors, one of them not a sensor.
NetInputValidationWitness ==
    /\ ret.op = "NetCompute"
    /\ ret.kind = "err"
    /\ Cardinality(DOMAIN ret.arg) = Len(net.sensors)
    /\ Len(net.sensors) = 2

\* C8: for an accepted input map Compute returns a map over exactly the
\* action names; the value of the i-th action is
\* back[i].Compute(middle) > 0 with middle[k] = front[k].Compute(v), v the
\* input values in the order of the sorted sensors.
NetForwardPass ==
    (ret.op = "NetCompute" /\ DOMAIN ret.arg = SensorSet) =>
        LET v      == [j \in 1..Len(net.sensors) |-> ret.arg[net.sensors[j]]]
            middle == [k \in 1..Len(net.front) |-> NeuronCompute(net.front[k], v).val]
            floats == [k \in 1..Len(middle) |-> 2 * middle[k]]
        IN  /\ ret.kind = "ok"
            /\ DOMAIN ret.val = ActionSet
            /\ \A i \in 1..Len(net.actions) :
                  ret.val[net.actions[i]]
                      = (NeuronCompute(net.back[i], floats).val > 0)

NetForwardPassWitness ==
    /\ ret.op = "NetCompute"
    /\ ret.kind = "ok"
    /\ Len(net.sensors) = 2
    /\ Len(net.actions) = 2
    /\ ret.arg[net.sensors[1]] # ret.arg[net.sensors[2]]
    /\ ret.val[net.actions[1]]
    /\ ~ret.val[net.actions[2]]

\* a < b in lexicographic order of bytes.
LexLess(a, b) ==
    \E k \in 0..Len(a) :
        /\ k <= Len(b)
        /\ \A j \in 1..k : a[j] = b[j]
        /\ \/ k = Len(a) /\ k < Len(b)
           \/ k < Len(a) /\ k < Len(b) /\ a[k + 1] < b[k + 1]

\* stored holds exactly the distinct names of given, strictly ascending.
IsCanonical(stored, given) ==
    /\ { stored[i] : i \in 1..Len(stored) } = { given[i] : i \in 1..Len(given) }
    /\ \A i \in 1..Len(stored) : \A j \in 1..Len(stored) :
          i < j => LexLess(stored[i], stored[j])

\* C9: the names stored in the network and returned by GetSensors and
\* GetActions are the distinct names given to the constructor, each once,
\* in strictly ascending lexicographic order.
Canonicalization ==
    /\ ~net.nil => /\ IsCanonical(net.sensors, args.sensors)
                   /\ IsCanonical(net.actions, args.actions)
    /\ ret.op = "GetNames" => /\ IsCanonical(ret.val.sensors, args.sensors)
                              /\ IsCanonical(ret.val.actions, args.actions)

CanonicalizationWitness ==
    /\ ret.op = "GetNames"
    /\ args.sensors = << <<98>>, <<97, 98>>, <<98>> >>
    /\ ret.val.sensors = << <<97, 98>>, <<98>> >>

\* The constructor's conditions on what it is given, names counted once.
Violates(a) ==
    \/ Distinct(a.sensors) = 0
    \/ Distinct(a.actions) = 0
    \/ Len(a.front) # Distinct(a.actions)
    \/ Len(a.back) # Distinct(a.actions)
    \/ \E i \in 1..Len(a.front) : Len(a.front[i]) # Distinct(a.sensors)
    \/ \E i \in 1..Len(a.back) : Len(a.back[i]) # Distinct(a.actions)

\* C10: a network returned by NewNeuralNet or LoadNet has at least one
\* sensor and one action, front and back layers with as many neurons as
\* actions, front neurons of the size of the sensors and back neurons of
\* the size of the actions; arguments or a stream violating one of these
\* give an error and no network.
ConstructionInvariants ==
    /\ ~net.nil =>
          /\ Len(net.sensors) >= 1
          /\ Len(net.actions) >= 1
          /\ Len(net.front) = Len(net.actions)
          /\ Len(net.back) = Len(net.actions)
          /\ \A i \in 1..Len(net.front) : GetSize(net.front[i]) = Len(net.sensors)
          /\ \A i \in 1..Len(net.back) : GetSize(net.back[i]) = Len(net.actions)
    /\ ret.op \in { "NewNeuralNet", "LoadNet" } =>
          /\ ret.kind = "ok" <=> ~net.nil
          /\ Violates(args) => (ret.kind = "err" /\ net.nil)

\* LoadNet refuses a stream whose only flaw is the size of a back neuron.
ConstructionInvariantsWitness ==
    /\ ret.op = "LoadNet"
    /\ ret.kind = "err"
    /\ ret.arg.msg = "back neuron"
    /\ net.nil

\* The indexes, from 0, of the neurons of a layer whose size is not want.
BadIndexes(layer, want) ==
    { i \in 0..(Len(layer) - 1) : Len(layer[i + 1]) # want }

Lowest(S) == CHOOSE i \in S : \A j \in S : i <= j

\* C11: given sensors and actions that are not empty and layers with as
\* many neurons as actions, NewNeuralNet returns no network and an error
\* naming the lowest index of a front neuron whose size is not the number
\* of sensors; and, when every front neuron is right, the lowest index of
\* a back neuron whose size is not the number of actions.
SizeMismatchError ==
    (/\ ret.op = "NewNeuralNet"
     /\ Distinct(args.sensors) > 0
     /\ Distinct(args.actions) > 0
     /\ Len(args.front) = Distinct(args.actions)
     /\ Len(args.back) = Distinct(args.actions)) =>
        LET badFront == BadIndexes(args.front, Distinct(args.sensors))
            badBack  == BadIndexes(args.back, Distinct(args.actions))
        IN  /\ badFront # {} =>
                  /\ ret.kind = "err"
                  /\ net.nil
                  /\ ret.arg = [msg |-> "fron neuron", index |-> Lowest(badFront)]
            /\ (badFront = {} /\ badBack # {}) =>
                  /\ ret.kind = "err"
                  /\ net.nil
                  /\ ret.arg = [msg |-> "back neuron", index |-> Lowest(badBack)]

\* Two front neurons of the wrong size, then the error names index 0.
SizeMismatchErrorWitness ==
    /\ ret.op = "NewNeuralNet"
    /\ Len(args.front) = 2
    /\ BadIndexes(args.front, Distinct(args.sensors)) = { 0, 1 }
    /\ ret.arg = [msg |-> "fron neuron", index |-> 0]

\* Fewer than 2 + 4*declared_size bytes, or too few to hold the size.
Short(input) == Len(input) < 2 \/ Len(input) < 2 + 4 * (input[1] * 256 + input[2])

\* C12: NewNeuron on a byte sequence of fewer than 2 + 4*declared_size
\* bytes, lengths 0 and 1 included, returns an error and no neuron, and
\* does not abort the caller.
TruncatedBytes ==
    (ret.op = "NewNeuronBytes" /\ Short(ret.arg.input)) =>
        (ret.kind = "err" /\ ret.val = <<>>)

\* C13: NewNeuron on a byte sequence whose length is not
\* 2 + 4*declared_size, more bytes included, returns a decode error.
SizeDisagreement ==
    (/\ ret.op = "NewNeuronBytes"
     /\ Len(ret.arg.input) >= 2
     /\ Len(ret.arg.input) # 2 + 4 * (ret.arg.input[1] * 256 + ret.arg.input[2])) =>
        ret.kind = "err"

\* C14: NewNeuron on a stream that ends before 2 + 4*declared_size bytes
\* returns an error and no neuron, never a neuron filled up with zeros.
TruncatedStream ==
    (ret.op = "NewNeuronReader" /\ Short(ret.arg.input)) =>
        (ret.kind = "err" /\ ret.val = <<>>)

\* a < b on host ints.
Less64(a, b) ==
    IF Negative(a) # Negative(b) THEN Negative(a)
    ELSE \E k \in 1..IntBytes :
            /\ \A j \in 1..(k - 1) : a[j] = b[j]
            /\ a[k] < b[k]

\* -(d div 2) <= off <= d - 1 - (d div 2)
InChildRange(off, d) ==
    /\ ~Less64(off, Neg64(Half64(d)))
    /\ ~Less64(Sub64(Sub64(d, IntWord(1)), Half64(d)), off)

\* C15: for every positive deviation d, Child(d) returns a neuron of the
\* same size whose gene i minus the parent's gene i lies between
\* -(d div 2) and d - 1 - (d div 2).
MutationRange ==
    ret.op = "Child" =>
        /\ ret.kind = "ok"
        /\ GetSize(ret.val) = GetSize(neu)
        /\ \A i \in 1..GetSize(neu) :
              InChildRange(Sub64(ret.val[i], neu[i]), ret.arg)

\* C18: for every positive deviation GetChild returns a network with the
\* sensors and actions of the parent, as many layers and as many neurons
\* in each layer, every neuron of the size of the parent's neuron at its
\* place with genes within the Child range of the parent's genes; the
\* network returned passes the checks of the constructor.
MutatedClone ==
    ret.op = "GetChild" =>
        /\ ret.kind = "ok"
        /\ ret.val.sensors = net.sensors
        /\ ret.val.actions = net.actions
        /\ Len(ret.val.neurons) = Len(net.neurons)
        /\ \A i \in 1..Len(net.neurons) :
              /\ Len(ret.val.neurons[i]) = Len(net.neurons[i])
              /\ \A j \in 1..Len(net.neurons[i]) :
                    /\ GetSize(ret.val.neurons[i][j]) = GetSize(net.neurons[i][j])
                    /\ \A k \in 1..GetSize(net.neurons[i][j]) :
                          InChildRange(Sub64(ret.val.neurons[i][j][k],
                                             net.neurons[i][j][k]), ret.arg)
        /\ NewNeuralNetLayers(ret.val.sensors, ret.val.actions,
                              ret.val.neurons).kind = "ok"

\* Every slice made before the step holds what it held.
HeapKept == \A a \in 1..Len(heap) : heap'[a] = heap[a]

\* The network GetChild returned with its layers at address a.
ChildNet(a) == [net EXCEPT !.neurons = a]

\* C16: a call of Child or of GetChild leaves the genes of the neuron and
\* the sensors, actions and layers of the network as they were, and what
\* it returns is made of new slices.
MutationFrame ==
    [][(AliasChildCall \/ AliasGetChildCall) =>
          /\ neu' = neu
          /\ net' = net
          /\ heap'[neu].elems = heap[neu].elems
          /\ ~net.nil => NetValue(heap', net) = NetValue(heap, net)
          /\ HeapKept
          /\ ret'.kind = "ok" => ret'.val > Len(heap)
          /\ (ret'.op = "GetChild" /\ ret'.kind = "ok") =>
                \A i \in 1..Len(heap'[ret'.val].elems) :
                    heap'[ret'.val].elems[i] > Len(heap)]_vars

\* GetChild has returned a network that differs from its parent.
MutationFrameWitness ==
    /\ ret.op = "GetChild"
    /\ ret.kind = "ok"
    /\ NetValue(heap, ChildNet(ret.val)).neurons # NetValue(heap, net).neurons
    /\ NetValue(heap, net).neurons = << << PatNeuron("alt", 1) >> >>

\* C17: once NewNeuralNet has returned a network, its sensors, actions and
\* layers never change, whatever the caller stores into the slices it
\* handed over.
NetImmutable ==
    [][~net.nil => (net' = net /\ NetValue(heap', net') = NetValue(heap, net))]_vars

\* C19: an accessor returns a new slice holding what the network holds, and
\* a store into the slice returned leaves the network, which is all that
\* the accessors, Compute, Save and String read, as it was.
DefensiveCopies ==
    [][/\ (AccessorCall /\ ret'.val # 0) =>
             /\ ret'.val > Len(heap)
             /\ heap'[ret'.val].elems
                    = heap[AccessorAddr(heap, net, ret'.op, ret'.arg[1])].elems
             /\ HeapKept
       /\ (\E a \in Returned : heap'[a] # heap[a]) =>
             /\ net' = net
             /\ NetValue(heap', net) = NetValue(heap, net)]_vars

\* The caller has overwritten the sensors it got; the network has its own.
DefensiveCopiesWitness ==
    /\ ret.op = "GetSensors"
    /\ heap[ret.val].elems = << <<122>> >>
    /\ heap[net.sensors].elems = << <<97>> >>

\* C20: every call of Marshal starts its own sequence: whatever the other
\* consumers have read, a consumer has received the encoding from its
\* first byte on, and the whole encoding once it has read 2 + 4*size bytes.
MarshalRestartable ==
    \A c \in 1..Len(chans) :
        /\ chans[c].got = SubSeq(MarshalBytes(neu), 1, Len(chans[c].got))
        /\ Len(chans[c].got) = 2 + 4 * GetSize(neu) => chans[c].got = MarshalBytes(neu)

\* One consumer has the whole encoding, another is part of the way.
MarshalRestartableWitness ==
    /\ GetSize(neu) = 2
    /\ Len(chans) = 2
    /\ chans[1].got = MarshalBytes(neu)
    /\ Len(chans[2].got) = 3

\* C21: the sequence of a Marshal call ends: a consumer that reads until
\* it sees the end of the sequence does see it.
MarshalFinite ==
    \A c \in 1..MaxCalls :
        (Len(chans) >= c) ~> (Len(chans) >= c /\ chans[c].ended)

Enough(input) == Len(input) - 2 >= 4 * Uint16(input)

\* C23: the exchange between neuronFromBytes and processBytes ends, with
\* one outcome that stays: a neuron holding every declared value at its
\* index exactly when the body holds 4 bytes for each, an error and no
\* neuron otherwise; the values received so far are the first values of
\* the body, in order.
DecodeProtocol ==
    /\ <>(ret.kind \in { "ok", "err" })
    /\ [][ret.kind \in { "ok", "err" } => ret' = ret]_vars
    /\ [](ret.kind = "ok" =>
            /\ Enough(ret.arg)
            /\ ret.i = Uint16(ret.arg)
            /\ ret.val = NeuronFromBytes(ret.arg).neu)
    /\ [](ret.kind = "err" => ~Enough(ret.arg) /\ ret.val = <<>>)
    /\ [](ret.kind = "running" =>
            /\ ret.i = chans.i
            /\ \A k \in 0..(ret.i - 1) :
                   ret.val[k + 1] = ValueAt(SubSeq(ret.arg, 3, Len(ret.arg)), k))

\* The first value was received, then the error.
DecodeProtocolWitness ==
    /\ ret.kind = "err"
    /\ ret.i = 1
    /\ Uint16(ret.arg) = 2
    /\ chans.at = "end"

\* C25: Save on a front/back network and String on a neuron return, and
\* at the return each neuron's channel has been read for exactly
\* 2 + 4*size bytes and its goroutine has sent its last byte: none waits
\* in a send.  What was read is the encoding of the network, of the neuron.
SaveTerminates ==
    /\ <>(ret.kind \in { "ok", "err" })
    /\ [](ret.kind \in { "ok", "err" } =>
            /\ Len(chans) = Len(Todo)
            /\ \A c \in 1..Len(chans) :
                  /\ Len(chans[c].got) = 2 + 4 * GetSize(Todo[c])
                  /\ ~Sending(chans, c, Todo[c])
            /\ (ret.kind = "ok" /\ ret.op = "Save") => ret.val = SaveBytes(net)
            /\ (ret.kind = "ok" /\ ret.op = "String") =>
                  ret.val = EncodeToString(MarshalBytes(neu)))

\* Save has returned from a network of four neurons.
SaveTerminatesWitness ==
    /\ ret.op = "Save"
    /\ ret.kind = "ok"
    /\ Len(chans) = 4
    /\ chans[1].got # chans[3].got

\* C24: Save on a layered network returns.
LayersSaveTerminates == <>(ret.kind \in { "ok", "err" })

\* C26: on a stream that starts with the encoding of a neuron, however the
\* stream hands its bytes over, NewNeuron returns what NewNeuron returns
\* on the encoding, and leaves in the stream what follows the encoding.
StreamEqualsBytes ==
    LET b     == MarshalBytes(neu)
        input == ret.arg.input
    IN  (/\ ret.op = "NewNeuronReader"
         /\ Len(input) >= Len(b)
         /\ SubSeq(input, 1, Len(b)) = b) =>
            /\ ret.kind = NeuronFromBytes(b).kind
            /\ ret.val = NeuronFromBytes(b).neu
            /\ ret.arg.rest = SubSeq(input, Len(b) + 1, Len(input))

\* The conditions under which the layered constructor accepts: a layer at
\* least, every neuron of the first layer as large as the sensors are many,
\* every neuron of a later layer as large as the layer before is long, and
\* a neuron in the last layer for each action.
Chained(n) ==
    /\ Len(n.neurons) > 0
    /\ \A i \in 1..Len(n.neurons) : \A j \in 1..Len(n.neurons[i]) :
          GetSize(n.neurons[i][j])
              = IF i = 1 THEN Len(n.sensors) ELSE Len(n.neurons[i - 1])
    /\ Len(n.neurons[Len(n.neurons)]) = Len(n.actions)

\* C27: a network that the layered NewNeuralNet or LoadNet returned
\* satisfies the conditions, and Compute on it with a map over exactly the
\* sensors returns one entry for each action, without a fault.
LayersNeverFault ==
    /\ ~net.nil => Chained(net)
    /\ (ret.op = "Compute"
          /\ DOMAIN ret.arg = { net.sensors[i] : i \in 1..Len(net.sensors) }) =>
            /\ ret.kind = "ok"
            /\ DOMAIN ret.val = { net.actions[i] : i \in 1..Len(net.actions) }

\* Compute has run through two layers of a loaded network and set an
\* action.
LayersNeverFaultWitness ==
    /\ ret.op = "Compute"
    /\ ret.kind = "ok"
    /\ Len(net.neurons) = 2
    /\ Len(net.sensors) = 2
    /\ \E a \in DOMAIN ret.val : ret.val[a]

====
